---- MODULE Spec2Model ----
(***************************************************************************)
(* Model of the bulk product import (routes/productRoutes.js, the upload   *)
(* handler and processProducts) and of the category create/update         *)
(* handlers (routes/categoryRoutes.js).                                    *)
(*                                                                         *)
(* JavaScript strings are TLA+ strings, taken apart character by character *)
(* with Len and SubSeq.  JavaScript numbers are integers counting          *)
(* hundredths (9.99 is 999, 5 is 500); NaN is a separate value.            *)
(***************************************************************************)
EXTENDS Integers, Sequences, FiniteSets

(***************************************************************************)
(* Bounds of the model.                                                    *)
(***************************************************************************)
MaxRows == 3
MaxReqs == 2

(***************************************************************************)
(* JavaScript values.                                                      *)
(***************************************************************************)
Undefined == [t |-> "undefined", n |-> 0, s |-> ""]
Num(n) == [t |-> "number", n |-> n, s |-> ""]
Str(s) == [t |-> "string", n |-> 0, s |-> s]
NaN == [nan |-> TRUE, v |-> 0]
Val(n) == [nan |-> FALSE, v |-> n]

CharAt(s, i) == SubSeq(s, i, i)

Falsy(c) ==
  \/ c.t = "undefined"
  \/ c.t = "number" /\ c.n = 0
  \/ c.t = "string" /\ c.s = ""

DigitChars == "0123456789"
IsDigit(c) == \E k \in 1..10 : CharAt(DigitChars, k) = c
DigitValue(c) == (CHOOSE k \in 1..10 : CharAt(DigitChars, k) = c) - 1

RECURSIVE NatToString(_)
NatToString(n) ==
  IF n < 10 THEN CharAt(DigitChars, n + 1)
  ELSE NatToString(n \div 10) \o CharAt(DigitChars, (n % 10) + 1)

\* Number.prototype.toString for a number held in hundredths.
NumberToString(n) ==
  LET a == IF n < 0 THEN 0 - n ELSE n
      ip == a \div 100
      fp == a % 100
      frac == IF fp = 0 THEN ""
              ELSE IF fp % 10 = 0 THEN "." \o NatToString(fp \div 10)
              ELSE "." \o NatToString(fp \div 10) \o NatToString(fp % 10)
  IN (IF n < 0 THEN "-" ELSE "") \o NatToString(ip) \o frac

\* String(value)
StringOf(c) ==
  IF c.t = "string" THEN c.s
  ELSE IF c.t = "number" THEN NumberToString(c.n)
  ELSE "undefined"

\* String.prototype.trim (the space stands for every whitespace character)
RECURSIVE Trim(_)
Trim(s) ==
  IF Len(s) = 0 THEN s
  ELSE IF CharAt(s, 1) = " " THEN Trim(SubSeq(s, 2, Len(s)))
  ELSE IF CharAt(s, Len(s)) = " " THEN Trim(SubSeq(s, 1, Len(s) - 1))
  ELSE s

UpperChars == "ABCDEFGHIJKLMNOPQRSTUVWXYZ"
LowerChars == "abcdefghijklmnopqrstuvwxyz"
LowerChar(c) ==
  IF \E k \in 1..26 : CharAt(UpperChars, k) = c
  THEN CharAt(LowerChars, CHOOSE k \in 1..26 : CharAt(UpperChars, k) = c)
  ELSE c

\* String.prototype.toLowerCase
RECURSIVE ToLowerCase(_)
ToLowerCase(s) ==
  IF Len(s) = 0 THEN s
  ELSE LowerChar(CharAt(s, 1)) \o ToLowerCase(SubSeq(s, 2, Len(s)))

\* s.replace(/[^...]/g, ''): keep the characters that occur in allowed.
RECURSIVE KeepChars(_, _)
KeepChars(s, allowed) ==
  IF Len(s) = 0 THEN s
  ELSE LET c == CharAt(s, 1)
           rest == KeepChars(SubSeq(s, 2, Len(s)), allowed)
       IN IF \E k \in 1..Len(allowed) : CharAt(allowed, k) = c
          THEN c \o rest ELSE rest

\* The length of the longest prefix of s made of digits.
RECURSIVE DigitPrefix(_)
DigitPrefix(s) ==
  IF Len(s) = 0 \/ ~IsDigit(CharAt(s, 1)) THEN 0
  ELSE 1 + DigitPrefix(SubSeq(s, 2, Len(s)))

RECURSIVE DigitsToNat(_)
DigitsToNat(s) ==
  IF Len(s) = 0 THEN 0
  ELSE DigitsToNat(SubSeq(s, 1, Len(s) - 1)) * 10 + DigitValue(CharAt(s, Len(s)))

HasSign(s) == Len(s) > 0 /\ CharAt(s, 1) \in {"-", "+"}
Unsigned(s) == IF HasSign(s) THEN SubSeq(s, 2, Len(s)) ELSE s
Signed(s, n) == IF HasSign(s) /\ CharAt(s, 1) = "-" THEN 0 - n ELSE n

\* parseInt(s): an optional sign, then digits up to the first other character.
ParseInt(s) ==
  LET u == Unsigned(s)
      k == DigitPrefix(u)
  IN IF k = 0 THEN NaN ELSE Val(Signed(s, DigitsToNat(SubSeq(u, 1, k)) * 100))

\* parseFloat(s): an optional sign, digits, an optional "." and digits, up to
\* the first character that fits no more (two decimals are kept).
ParseFloat(s) ==
  LET u == Unsigned(s)
      k == DigitPrefix(u)
      dot == Len(u) > k /\ CharAt(u, k + 1) = "."
      fs == IF dot THEN SubSeq(u, k + 2, Len(u)) ELSE ""
      f == DigitPrefix(fs)
      f2 == SubSeq(fs, 1, IF f > 2 THEN 2 ELSE f)
      fv == IF Len(f2) = 0 THEN 0
            ELSE IF Len(f2) = 1 THEN DigitsToNat(f2) * 10
            ELSE DigitsToNat(f2)
  IN IF k = 0 /\ f = 0 THEN NaN
     ELSE Val(Signed(s, DigitsToNat(SubSeq(u, 1, k)) * 100 + fv))

(***************************************************************************)
(* State.                                                                  *)
(***************************************************************************)
VARIABLES
  sheetHeaders,   \* the header row of the "Products" sheet, in column order
  products,       \* productData: one object (raw header -> cell) per data row
  category,       \* the category table
  dbProducts,     \* the committed rows of the products table
  columnMap,      \* normalized header -> raw header
  pc,             \* where the upload request stands
  released,       \* how many times client.release() ran
  tx,             \* the client's transaction block: "none", "open", "aborted"
  txRows,         \* rows inserted in the open transaction block
  stmts,          \* the statements issued on the client, in order
  categories,     \* categoryResult.rows
  categoryMap,    \* lowercased category name -> category_id
  errors,         \* the row errors pushed so far
  processedCount, \* the inserts that succeeded so far
  i,              \* the loop index of processProducts
  err,            \* the error on its way through catch and finally
  result,         \* what processProducts returned or threw
  reqs            \* the category requests in flight

importVars == <<sheetHeaders, products, category, dbProducts, columnMap, pc,
                released, tx, txRows, stmts, categories, categoryMap, errors,
                processedCount, i, err, result>>
vars == <<sheetHeaders, products, category, dbProducts, columnMap, pc,
          released, tx, txRows, stmts, categories, categoryMap, errors,
          processedCount, i, err, result, reqs>>

(***************************************************************************)
(* Inputs: sheets and tables the import is run on.                         *)
(***************************************************************************)
\* A sheet layout: the raw header of each column and the cell of a row
\* template that stands in it.
Col(h, f) == [h |-> h, f |-> f]
Layouts ==
  { <<Col(" Product_Name ", "n"), Col("CATEGORY_NAME", "c"),
      Col("Price ", "p"), Col(" STOCK", "s")>>,
    <<Col("product_name", "n"), Col("category_name", "c"),
      Col("price", "p"), Col(" Price", "a"), Col("stock", "s")>>,
    <<Col("product_name", "n"), Col("category_name", "c"),
      Col(" Price", "a"), Col("price", "p"), Col("stock", "s")>>,
    <<Col("Product Name", "n"), Col("category_name", "c"),
      Col("stock", "s")>>,
    <<Col("sku", "n")>> }

Tmpl(n, c, p, s, a) == [n |-> n, c |-> c, p |-> p, s |-> s, a |-> a]
Templates ==
  { Tmpl(Str("Widget"), Str(" tools "), Str("$9.99"), Num(500), Num(100)),
    Tmpl(Str("  "), Str("Tools"), Str("-1"), Str("5"), Str("-1")),
    Tmpl(Str("Bolt"), Str("Electronics"), Str("-1"), Str("-3"), Str("abc")),
    Tmpl(Num(700), Str("Electronics"), Num(250), Str("-3"), Num(250)),
    Tmpl(Str("Lamp"), Str("Electronics"), Str("4"), Undefined, Str("4")) }

\* The object sheet_to_json makes of one row: empty cells are left out.
RowObject(layout, t) ==
  [h \in {layout[j].h : j \in {k \in 1..Len(layout) : t[layout[k].f] # Undefined}}
     |-> t[layout[CHOOSE j \in 1..Len(layout) : layout[j].h = h].f]]

Cat(id, name) == [category_id |-> id, category_name |-> name]
CategoryTables ==
  { <<>>,
    <<Cat(1, "Toys"), Cat(2, "Tools")>> }

Product(name, cid, price, stock) ==
  [product_name |-> name, category_id |-> cid, price |-> price, stock |-> stock]
InitialProducts == <<Product("Anvil", 1, 1000, 100)>>

RowLists(n) == [1..n -> Templates]

NoError == [kind |-> "none", processedCount |-> 0, errors |-> <<>>,
            missingFields |-> <<>>]
Failure(kind, count, errs, missing) ==
  [kind |-> kind, processedCount |-> count, errors |-> errs,
   missingFields |-> missing]

Init ==
  /\ \E layout \in Layouts : \E n \in 1..MaxRows : \E ts \in RowLists(n) :
       /\ sheetHeaders = [j \in 1..Len(layout) |-> layout[j].h]
       /\ products = [r \in 1..n |-> RowObject(layout, ts[r])]
  /\ category \in CategoryTables
  /\ dbProducts = InitialProducts
  /\ columnMap = <<>>
  /\ pc = "upload"
  /\ released = 0
  /\ tx = "none"
  /\ txRows = <<>>
  /\ stmts = <<>>
  /\ categories = <<>>
  /\ categoryMap = <<>>
  /\ errors = <<>>
  /\ processedCount = 0
  /\ i = 0
  /\ err = NoError
  /\ result = NoError
  /\ reqs = <<>>

(***************************************************************************)
(* The upload handler: the column map (productRoutes.js 237-247).          *)
(***************************************************************************)
\* The characters the two replace() calls keep (lines 316 and 320).
PriceChars == "0123456789.-"
StockChars == "0123456789-"

\* product[key]: the cell, or undefined when the object has no such key.
Get(product, key) == IF key \in DOMAIN product THEN product[key] ELSE Undefined

\* Object.keys(firstRow): the headers the first data row has a cell for.
availableColumns(firstRow) ==
  SelectSeq(sheetHeaders, LAMBDA h : h \in DOMAIN firstRow)

\* availableColumns.forEach(col => columnMap[col.trim().toLowerCase()] = col)
RECURSIVE ColumnMapOf(_)
ColumnMapOf(cols) ==
  IF Len(cols) = 0 THEN [k \in {} |-> ""]
  ELSE LET m == ColumnMapOf(SubSeq(cols, 1, Len(cols) - 1))
           col == cols[Len(cols)]
           colTrimmed == ToLowerCase(Trim(col))
       IN [k \in DOMAIN m \cup {colTrimmed} |-> IF k = colTrimmed THEN col ELSE m[k]]

Upload ==
  /\ pc = "upload"
  /\ Len(products) > 0
  /\ columnMap' = ColumnMapOf(availableColumns(products[1]))
  /\ pc' = "connect"
  /\ UNCHANGED <<sheetHeaders, products, category, dbProducts, released, tx,
                 txRows, stmts, categories, categoryMap, errors,
                 processedCount, i, err, result, reqs>>

(***************************************************************************)
(* processProducts (productRoutes.js 272-405).                             *)
(***************************************************************************)
requiredFields == <<"product_name", "category_name", "price", "stock">>

\* Variant: the loop over requiredFields stops at the first missing field.
MissingFieldsFirstOnly(cmap) ==
  LET all == SelectSeq(requiredFields, LAMBDA f : ~(f \in DOMAIN cmap /\ cmap[f] # ""))
  IN IF Len(all) = 0 THEN all ELSE <<all[1]>>
\* !columnMap[field]: no entry, or an empty raw header.
MissingFields(cmap) ==
  SelectSeq(requiredFields, LAMBDA f : ~(f \in DOMAIN cmap /\ cmap[f] # ""))

\* categories.forEach(cat => categoryMap[cat.category_name.toLowerCase()] = cat.category_id)
RECURSIVE CategoryMapOf(_)
CategoryMapOf(cats) ==
  IF Len(cats) = 0 THEN [k \in {} |-> 0]
  ELSE LET m == CategoryMapOf(SubSeq(cats, 1, Len(cats) - 1))
           cat == cats[Len(cats)]
           key == ToLowerCase(cat.category_name)
       IN [k \in DOMAIN m \cup {key} |-> IF k = key THEN cat.category_id ELSE m[k]]

\* Variant: the required columns are checked before the category table.
PreLoopErrorColumnsFirst(cats, cmap) ==
  IF Len(MissingFields(cmap)) > 0
  THEN Failure("MissingColumns", 0, <<>>, MissingFields(cmap))
  ELSE IF Len(cats) = 0 THEN Failure("NoCategories", 0, <<>>, <<>>)
  ELSE NoError
\* The two checks made before the row loop, in the order the code makes them.
PreLoopError(cats, cmap) ==
  IF Len(cats) = 0 THEN Failure("NoCategories", 0, <<>>, <<>>)
  ELSE IF Len(MissingFields(cmap)) > 0
  THEN Failure("MissingColumns", 0, <<>>, MissingFields(cmap))
  ELSE NoError

getProductName(product, cmap) ==
  LET raw == Get(product, cmap["product_name"])
  IN Trim(StringOf(IF Falsy(raw) THEN Str("") ELSE raw))
getCategoryName(product, cmap) ==
  LET raw == Get(product, cmap["category_name"])
  IN Trim(StringOf(IF Falsy(raw) THEN Str("") ELSE raw))
getPrice(product, cmap) ==
  LET priceRaw == Get(product, cmap["price"])
      stripped == KeepChars(StringOf(priceRaw), PriceChars)
  IN IF priceRaw.t = "number" THEN Val(priceRaw.n)
     ELSE ParseFloat(IF stripped = "" THEN "0" ELSE stripped)
getStock(product, cmap) ==
  LET stockRaw == Get(product, cmap["stock"])
      stripped == KeepChars(StringOf(stockRaw), StockChars)
  IN IF stockRaw.t = "number" THEN Val(stockRaw.n)
     ELSE ParseInt(IF stripped = "" THEN "0" ELSE stripped)

\* Variant: the header row is not counted.
RowNumOneBased(idx) == idx + 1
\* const rowNum = i + 2 (i is the zero-based index of the row)
RowNum(idx) == idx + 2

RowErr(idx, reason, detail) ==
  [rowNum |-> RowNum(idx), reason |-> reason, detail |-> detail]

\* Variant: the stock check runs before the price check.
ValidationStockFirst(product, cmap, cmapCat) ==
  LET price == getPrice(product, cmap)
      stock == getStock(product, cmap)
  IN IF getProductName(product, cmap) = "" \/ getCategoryName(product, cmap) = ""
     THEN "missing"
     ELSE IF stock.nan \/ stock.v < 0 THEN "stock"
     ELSE IF price.nan \/ price.v <= 0 THEN "price"
     ELSE LET k == ToLowerCase(getCategoryName(product, cmap))
          IN IF ~(k \in DOMAIN cmapCat /\ cmapCat[k] # 0) THEN "category" ELSE "none"
\* The four checks of one loop iteration, in the code's order; "none" when
\* the row goes on to the insert.
Validation(product, cmap, cmapCat) ==
  LET price == getPrice(product, cmap)
      stock == getStock(product, cmap)
  IN IF getProductName(product, cmap) = "" \/ getCategoryName(product, cmap) = ""
     THEN "missing"
     ELSE IF price.nan \/ price.v <= 0 THEN "price"
     ELSE IF stock.nan \/ stock.v < 0 THEN "stock"
     ELSE LET k == ToLowerCase(getCategoryName(product, cmap))
          IN IF ~(k \in DOMAIN cmapCat /\ cmapCat[k] # 0) THEN "category" ELSE "none"

\* The row handed to the INSERT statement.
InsertedRow(product, cmap, cmapCat) ==
  Product(getProductName(product, cmap),
          cmapCat[ToLowerCase(getCategoryName(product, cmap))],
          getPrice(product, cmap).v, getStock(product, cmap).v)

Success(count) == Failure("success", count, <<>>, <<>>)

\* Variant: processedCount > 1.
PartialCommitMoreThanOne(errs, count) == Len(errs) > 0 /\ count > 1
\* if (errors.length > 0 && processedCount > 0)
PartialCommit(errs, count) == Len(errs) > 0 /\ count > 0

\* if (products.length === errors.length)
AllFailed(prods, errs) == Len(prods) = Len(errs)

\* The products table after COMMIT: PostgreSQL keeps the rows of an open
\* transaction block, and ends an aborted one as a rollback.
AfterCommit(txState, table, rows) ==
  IF txState = "open" THEN table \o rows ELSE table

\* Variant: the client is not released.
NotReleased(r) == r
\* finally { client.release() }
Released(r) == r + 1

\* const client = await pool.connect()
Connect ==
  /\ pc = "connect"
  /\ pc' = "begin"
  /\ UNCHANGED <<sheetHeaders, products, category, dbProducts, columnMap,
                 released, tx, txRows, stmts, categories, categoryMap, errors,
                 processedCount, i, err, result, reqs>>

\* await client.query('BEGIN')
Begin ==
  /\ pc = "begin"
  /\ stmts' = Append(stmts, "BEGIN")
  /\ tx' = "open"
  /\ errors' = <<>>
  /\ processedCount' = 0
  /\ pc' = "select"
  /\ UNCHANGED <<sheetHeaders, products, category, dbProducts, columnMap,
                 released, txRows, categories, categoryMap, i, err, result, reqs>>

\* The category query, the empty-table check, the category map and the
\* required-column check (lines 281-309): no await separates them.
SelectCategories ==
  /\ pc = "select"
  /\ stmts' = Append(stmts, "SELECT")
  /\ categories' = category
  /\ categoryMap' = IF Len(category) = 0 THEN categoryMap ELSE CategoryMapOf(category)
  /\ err' = PreLoopError(category, columnMap)
  /\ pc' = IF PreLoopError(category, columnMap) = NoError THEN "loop" ELSE "catch"
  /\ i' = 0
  /\ UNCHANGED <<sheetHeaders, products, category, dbProducts, columnMap,
                 released, tx, txRows, errors, processedCount, result, reqs>>

\* One loop iteration that ends in errors.push(...); continue (lines 336-359).
RowInvalid ==
  /\ pc = "loop"
  /\ i < Len(products)
  /\ Validation(products[i + 1], columnMap, categoryMap) # "none"
  /\ errors' = Append(errors,
       LET reason == Validation(products[i + 1], columnMap, categoryMap)
       IN RowErr(i, reason, IF reason = "category"
                            THEN getCategoryName(products[i + 1], columnMap) ELSE ""))
  /\ i' = i + 1
  /\ UNCHANGED <<sheetHeaders, products, category, dbProducts, columnMap, pc,
                 released, tx, txRows, stmts, categories, categoryMap,
                 processedCount, err, result, reqs>>

\* One loop iteration whose INSERT succeeds (lines 361-371).
InsertOk ==
  /\ pc = "loop"
  /\ i < Len(products)
  /\ Validation(products[i + 1], columnMap, categoryMap) = "none"
  /\ tx = "open"
  /\ stmts' = Append(stmts, "INSERT")
  /\ txRows' = Append(txRows, InsertedRow(products[i + 1], columnMap, categoryMap))
  /\ processedCount' = processedCount + 1
  /\ i' = i + 1
  /\ UNCHANGED <<sheetHeaders, products, category, dbProducts, columnMap, pc,
                 released, tx, categories, categoryMap, errors, err, result, reqs>>

\* One loop iteration whose INSERT is rejected (lines 372-375).  A statement
\* the server rejects aborts the transaction block, and every later statement
\* of the block is rejected too; a failure on the client side (a timeout)
\* leaves the block open.
InsertFails ==
  /\ pc = "loop"
  /\ i < Len(products)
  /\ Validation(products[i + 1], columnMap, categoryMap) = "none"
  /\ stmts' = Append(stmts, "INSERT")
  /\ errors' = Append(errors, RowErr(i, "database", ""))
  /\ \E aborts \in BOOLEAN :
       tx' = IF tx = "aborted" \/ aborts THEN "aborted" ELSE tx
  /\ i' = i + 1
  /\ UNCHANGED <<sheetHeaders, products, category, dbProducts, columnMap, pc,
                 released, txRows, categories, categoryMap, processedCount,
                 err, result, reqs>>

\* Lines 380-384: COMMIT, then throw the aggregate error.
CommitPartial ==
  /\ pc = "loop"
  /\ i = Len(products)
  /\ PartialCommit(errors, processedCount)
  /\ stmts' = Append(stmts, "COMMIT")
  /\ dbProducts' = AfterCommit(tx, dbProducts, txRows)
  /\ tx' = "none"
  /\ txRows' = <<>>
  /\ err' = Failure("PartialFailure", processedCount, errors, <<>>)
  /\ pc' = "catch"
  /\ UNCHANGED <<sheetHeaders, products, category, columnMap, released,
                 categories, categoryMap, errors, processedCount, i, result, reqs>>

\* Lines 386-390: ROLLBACK, then throw.
RollbackAll ==
  /\ pc = "loop"
  /\ i = Len(products)
  /\ ~PartialCommit(errors, processedCount)
  /\ AllFailed(products, errors)
  /\ stmts' = Append(stmts, "ROLLBACK")
  /\ tx' = "none"
  /\ txRows' = <<>>
  /\ err' = Failure("NoValidProducts", processedCount, errors, <<>>)
  /\ pc' = "catch"
  /\ UNCHANGED <<sheetHeaders, products, category, dbProducts, columnMap,
                 released, categories, categoryMap, errors, processedCount, i,
                 result, reqs>>

\* Lines 392-397: COMMIT and return the success report.
CommitAll ==
  /\ pc = "loop"
  /\ i = Len(products)
  /\ ~PartialCommit(errors, processedCount)
  /\ ~AllFailed(products, errors)
  /\ stmts' = Append(stmts, "COMMIT")
  /\ dbProducts' = AfterCommit(tx, dbProducts, txRows)
  /\ tx' = "none"
  /\ txRows' = <<>>
  /\ result' = Success(processedCount)
  /\ pc' = "finally"
  /\ UNCHANGED <<sheetHeaders, products, category, columnMap, released,
                 categories, categoryMap, errors, processedCount, i, err, reqs>>

\* catch (err) { await client.query('ROLLBACK'); throw err; }
Catch ==
  /\ pc = "catch"
  /\ stmts' = Append(stmts, "ROLLBACK")
  /\ tx' = "none"
  /\ txRows' = <<>>
  /\ pc' = "finally"
  /\ UNCHANGED <<sheetHeaders, products, category, dbProducts, columnMap,
                 released, categories, categoryMap, errors, processedCount, i,
                 err, result, reqs>>

\* finally { client.release(); } and the handler's response (lines 252-260).
Finally ==
  /\ pc = "finally"
  /\ released' = Released(released)
  /\ result' = IF err = NoError THEN result ELSE err
  /\ pc' = "done"
  /\ UNCHANGED <<sheetHeaders, products, category, dbProducts, columnMap, tx,
                 txRows, stmts, categories, categoryMap, errors,
                 processedCount, i, err, reqs>>

Next ==
  \/ Upload
  \/ Connect
  \/ Begin
  \/ SelectCategories
  \/ RowInvalid
  \/ InsertOk
  \/ InsertFails
  \/ CommitPartial
  \/ RollbackAll
  \/ CommitAll
  \/ Catch
  \/ Finally

Spec == Init /\ [][Next]_vars

(***************************************************************************)
(* The same import with a database that can also fail on the statements    *)
(* that control the transaction.  A rejected query throws, and the throw   *)
(* is caught at line 399.                                                  *)
(***************************************************************************)
TransactionFailure == Failure("TransactionFailure", 0, <<>>, <<>>)

\* pool.connect() rejects: no client is obtained and the try block is not entered.
ConnectFails ==
  /\ pc = "connect"
  /\ result' = TransactionFailure
  /\ pc' = "done"
  /\ UNCHANGED <<sheetHeaders, products, category, dbProducts, columnMap,
                 released, tx, txRows, stmts, categories, categoryMap, errors,
                 processedCount, i, err, reqs>>

\* client.query('BEGIN') rejects.
BeginFails ==
  /\ pc = "begin"
  /\ stmts' = Append(stmts, "BEGIN")
  /\ err' = TransactionFailure
  /\ pc' = "catch"
  /\ UNCHANGED <<sheetHeaders, products, category, dbProducts, columnMap,
                 released, tx, txRows, categories, categoryMap, errors,
                 processedCount, i, result, reqs>>

\* client.query('SELECT * FROM category') rejects.
SelectFails ==
  /\ pc = "select"
  /\ stmts' = Append(stmts, "SELECT")
  /\ tx' = "aborted"
  /\ err' = TransactionFailure
  /\ pc' = "catch"
  /\ UNCHANGED <<sheetHeaders, products, category, dbProducts, columnMap,
                 released, txRows, categories, categoryMap, errors,
                 processedCount, i, result, reqs>>

\* client.query('COMMIT') rejects (line 382 or line 393): the client cannot
\* tell whether the server had committed.
CommitFails ==
  /\ pc = "loop"
  /\ i = Len(products)
  /\ PartialCommit(errors, processedCount) \/ ~AllFailed(products, errors)
  /\ stmts' = Append(stmts, "COMMIT")
  /\ \E took \in BOOLEAN :
       /\ dbProducts' = IF took THEN AfterCommit(tx, dbProducts, txRows) ELSE dbProducts
       /\ tx' = IF took THEN "none" ELSE "aborted"
       /\ txRows' = IF took THEN <<>> ELSE txRows
  /\ err' = TransactionFailure
  /\ pc' = "catch"
  /\ UNCHANGED <<sheetHeaders, products, category, columnMap, released,
                 categories, categoryMap, errors, processedCount, i, result, reqs>>

\* client.query('ROLLBACK') rejects at line 388.
RollbackFails ==
  /\ pc = "loop"
  /\ i = Len(products)
  /\ ~PartialCommit(errors, processedCount)
  /\ AllFailed(products, errors)
  /\ stmts' = Append(stmts, "ROLLBACK")
  /\ err' = TransactionFailure
  /\ pc' = "catch"
  /\ UNCHANGED <<sheetHeaders, products, category, dbProducts, columnMap,
                 released, tx, txRows, categories, categoryMap, errors,
                 processedCount, i, result, reqs>>

\* client.query('ROLLBACK') rejects inside the catch block (line 400): its
\* error replaces the one that was caught; finally still runs.
CatchRollbackFails ==
  /\ pc = "catch"
  /\ stmts' = Append(stmts, "ROLLBACK")
  /\ err' = TransactionFailure
  /\ pc' = "finally"
  /\ UNCHANGED <<sheetHeaders, products, category, dbProducts, columnMap,
                 released, tx, txRows, categories, categoryMap, errors,
                 processedCount, i, result, reqs>>

NextFault ==
  \/ Next
  \/ ConnectFails
  \/ BeginFails
  \/ SelectFails
  \/ CommitFails
  \/ RollbackFails
  \/ CatchRollbackFails

SpecFault == Init /\ [][NextFault]_vars

(***************************************************************************)
(* Properties of the import.                                               *)
(***************************************************************************)
Range(f) == {f[k] : k \in DOMAIN f}
Issued(stmt) == \E k \in 1..Len(stmts) : stmts[k] = stmt
Normalize(h) == ToLowerCase(Trim(h))

\* The required keys no header of the first row normalizes to.
AbsentKeys ==
  LET keys == {Normalize(h) : h \in Range(availableColumns(products[1]))}
  IN {f \in Range(requiredFields) : f \notin keys}

\* The rows processed so far that have no row error, as the INSERT receives them.
SuccessRows ==
  LET idxs == SelectSeq([k \in 1..i |-> k - 1],
                        LAMBDA idx : \A e \in Range(errors) : e.rowNum # idx + 2)
  IN [k \in 1..Len(idxs) |-> InsertedRow(products[idxs[k] + 1], columnMap, categoryMap)]

\* The row loop was entered: both checks before it passed.
LoopEntered == Len(category) > 0 /\ AbsentKeys = {}

\* The four checks of a row, each on its own, and the first one a row fails.
FailsNames(p) == getProductName(p, columnMap) = "" \/ getCategoryName(p, columnMap) = ""
FailsPrice(p) == LET price == getPrice(p, columnMap) IN price.nan \/ price.v <= 0
FailsStock(p) == LET stock == getStock(p, columnMap) IN stock.nan \/ stock.v < 0
FailsCategory(p) ==
  LET name == ToLowerCase(getCategoryName(p, columnMap))
  IN ~\E k \in 1..Len(category) : ToLowerCase(category[k].category_name) = name
FirstFailure(p) ==
  IF FailsNames(p) THEN "missing"
  ELSE IF FailsPrice(p) THEN "price"
  ELSE IF FailsStock(p) THEN "stock"
  ELSE IF FailsCategory(p) THEN "category"
  ELSE "none"

\* C1: when the import ends with at least one inserted row and at least one
\* row error, COMMIT was issued, every inserted row is in the products table,
\* and the import failed with the aggregate error that carries the success
\* count and every row error.
C1_PartialCommitKeepsInsertedRows ==
  (pc = "done" /\ Len(errors) > 0 /\ processedCount > 0) =>
    /\ Issued("COMMIT")
    /\ dbProducts = InitialProducts \o SuccessRows
    /\ result = Failure("PartialFailure", processedCount, errors, <<>>)

\* C2 as claimed: whatever the category table holds, a sheet that lacks a
\* required column ends in MissingColumns listing exactly the absent keys,
\* with no insert.
C2_MissingColumnsAnyCategoryTable ==
  LET absent == AbsentKeys
  IN (pc = "done" /\ absent # {}) =>
    /\ result.kind = "MissingColumns"
    /\ Range(result.missingFields) = absent
    /\ Len(result.missingFields) = Cardinality(absent)
    /\ ~Issued("INSERT")
    /\ dbProducts = InitialProducts

\* C2 amended: when the category table is not empty, a sheet that lacks a
\* required column ends in MissingColumns listing exactly the absent keys,
\* with no insert.
C2_MissingColumnsNonEmptyCategories ==
  LET absent == AbsentKeys
  IN (pc = "done" /\ Len(category) > 0 /\ absent # {}) =>
    /\ result.kind = "MissingColumns"
    /\ Range(result.missingFields) = absent
    /\ Len(result.missingFields) = Cardinality(absent)
    /\ ~Issued("INSERT")
    /\ dbProducts = InitialProducts

C2_Witness ==
  /\ pc = "done"
  /\ Len(category) > 0
  /\ result.kind = "MissingColumns"
  /\ Len(result.missingFields) >= 2
  /\ Len(result.missingFields) < Len(requiredFields)

\* C3: when every one of the N rows fails validation, the import rolls back,
\* the products table is unchanged, and the reported errors are N entries in
\* row order with display numbers 2..N+1.
C3_AllRowsInvalidRollsBack ==
  (/\ pc = "done"
   /\ LoopEntered
   /\ \A r \in 1..Len(products) : FirstFailure(products[r]) # "none") =>
    /\ Issued("ROLLBACK")
    /\ ~Issued("COMMIT")
    /\ dbProducts = InitialProducts
    /\ result.kind = "NoValidProducts"
    /\ Len(result.errors) = Len(products)
    /\ \A k \in 1..Len(result.errors) :
         /\ result.errors[k].rowNum = k + 1
         /\ result.errors[k].reason = FirstFailure(products[k])

C3_Witness ==
  /\ pc = "done"
  /\ result.kind = "NoValidProducts"
  /\ Len(products) >= 2
  /\ \A e \in Range(result.errors) : e.reason # "database"
  /\ \E e \in Range(result.errors) : e.reason = "category"

\* C4: after an insert has failed, the rows after it can still be inserted,
\* the rows that were inserted are kept by the commit, and the failed row is
\* not counted.
C4_InsertFailureIsRowLocal ==
  (\E e \in Range(errors) : e.reason = "database") =>
    /\ pc = "loop" => tx = "open"
    /\ processedCount = Len(SuccessRows)
    /\ (pc = "done" /\ processedCount > 0) =>
         dbProducts = InitialProducts \o SuccessRows

\* C5: the import returns the success report exactly when every row was
\* inserted and there is no row error, and then the transaction is committed
\* and the table has grown by the number of input rows; with any row error
\* the import fails with an aggregate error.
C5_SuccessIffAllInserted ==
  pc = "done" =>
    /\ result.kind = "success" <=>
         (processedCount = Len(products) /\ Len(errors) = 0)
    /\ result.kind = "success" =>
         /\ Issued("COMMIT")
         /\ result = Success(Len(products))
         /\ dbProducts = InitialProducts \o SuccessRows
         /\ Len(dbProducts) = Len(InitialProducts) + Len(products)
    /\ Len(errors) > 0 =>
         /\ result.kind \in {"PartialFailure", "NoValidProducts"}
         /\ result.errors = errors

C5_Witness ==
  /\ pc = "done"
  /\ result.kind = "success"
  /\ Len(products) >= 2
  /\ Len(dbProducts) = Len(InitialProducts) + Len(products)

\* C6: every key of the column map is mapped to the first header, in column
\* order, that normalizes to it.
C6_FirstHeaderWins ==
  pc # "upload" =>
    \A key \in DOMAIN columnMap :
      LET cols == availableColumns(products[1])
          first == CHOOSE j \in 1..Len(cols) :
                     /\ Normalize(cols[j]) = key
                     /\ \A k \in 1..(j - 1) : Normalize(cols[k]) # key
      IN columnMap[key] = cols[first]

\* C7: an import run on an empty category table ends in NoCategories, with
\* no insert.
C7_EmptyCategoriesFails ==
  (pc = "done" /\ Len(category) = 0) =>
    /\ result.kind = "NoCategories"
    /\ ~Issued("INSERT")
    /\ dbProducts = InitialProducts

C7_Witness ==
  /\ pc = "done"
  /\ Len(category) = 0
  /\ result.kind = "NoCategories"
  /\ AbsentKeys # {}

\* C8: after k rows the errors and the successful inserts add up to k, no row
\* has two errors, and a row that fails a check carries the error of the
\* first check it fails: names, then price, then stock, then category.
C8_OneOutcomePerRow ==
  /\ Len(errors) + processedCount = i
  /\ \A idx \in 0..(i - 1) :
       LET mine == {k \in 1..Len(errors) : errors[k].rowNum = idx + 2}
           first == FirstFailure(products[idx + 1])
       IN /\ Cardinality(mine) <= 1
          /\ first # "none" => \E k \in mine : errors[k].reason = first
          /\ first = "none" => \A k \in mine : errors[k].reason = "database"

C8_Witness ==
  /\ pc = "loop"
  /\ i = Len(products)
  /\ processedCount > 0
  /\ \E k \in 1..Len(errors) :
       /\ errors[k].reason = "price"
       /\ FailsStock(products[errors[k].rowNum - 1])
       /\ FailsCategory(products[errors[k].rowNum - 1])
  /\ \E k \in 1..Len(errors) : errors[k].reason = "missing"

\* C9: COMMIT is issued only once every row has been processed; an import
\* that ends without a COMMIT has issued a ROLLBACK and left the products
\* table as it was; and the client is released exactly once, at the end.
C9_TransactionScope ==
  /\ \A k \in 1..Len(stmts) :
       stmts[k] = "COMMIT" =>
         /\ i = Len(products)
         /\ \A j \in (k + 1)..Len(stmts) : stmts[j] # "INSERT"
  /\ ~Issued("COMMIT") => dbProducts = InitialProducts
  /\ (pc = "done" /\ Len(stmts) > 0 /\ ~Issued("COMMIT")) => Issued("ROLLBACK")
  /\ released = IF pc = "done" /\ Len(stmts) > 0 THEN 1 ELSE 0

C9_Witness ==
  /\ pc = "done"
  /\ released = 1
  /\ result = TransactionFailure
  /\ stmts[Len(stmts) - 1] = "COMMIT"
  /\ stmts[Len(stmts)] = "ROLLBACK"
  /\ Len(txRows) > 0
  /\ dbProducts = InitialProducts

(***************************************************************************)
(* The category handlers (categoryRoutes.js): POST / and PUT /:id.  Each   *)
(* request runs its queries one await at a time on the pool, outside any   *)
(* transaction, so other requests run between two of its queries.          *)
(***************************************************************************)
Names == {"Tools", "tools", "TOOLS", ""}
Ids == {1, 2}
Post(name) == [method |-> "POST", id |-> 0, category_name |-> name,
               at |-> "start", status |-> 0]
Put(id, name) == [method |-> "PUT", id |-> id, category_name |-> name,
                  at |-> "start", status |-> 0]
Requests == {Post(name) : name \in Names} \cup
            {Put(id, name) : id \in Ids, name \in Names}

\* Concurrent requests carry names of different spelling: what the table does
\* with two rows of identical spelling is left to its own constraints.
InitCat ==
  /\ \E n \in 1..MaxReqs : reqs \in [1..n -> Requests]
  /\ \A a, b \in DOMAIN reqs :
       (a # b /\ reqs[a].category_name # "") =>
         reqs[a].category_name # reqs[b].category_name
  /\ category = <<Cat(1, "Toys")>>
  /\ sheetHeaders = <<>>
  /\ products = <<>>
  /\ dbProducts = InitialProducts
  /\ columnMap = <<>>
  /\ pc = "idle"
  /\ released = 0
  /\ tx = "none"
  /\ txRows = <<>>
  /\ stmts = <<>>
  /\ categories = <<>>
  /\ categoryMap = <<>>
  /\ errors = <<>>
  /\ processedCount = 0
  /\ i = 0
  /\ err = NoError
  /\ result = NoError

Respond(r, status) == [reqs EXCEPT ![r].at = "done", ![r].status = status]
Goto(r, at) == [reqs EXCEPT ![r].at = at]

\* SELECT * FROM category WHERE LOWER(category_name) = LOWER($1)
SameName(name) ==
  {k \in 1..Len(category) : ToLowerCase(category[k].category_name) = ToLowerCase(name)}
\* ... AND category_id != $2
SameNameOther(name, id) ==
  {k \in SameName(name) : category[k].category_id # id}
\* SELECT * FROM category WHERE category_id = $1
WithId(id) == {k \in 1..Len(category) : category[k].category_id = id}

\* if (!category_name) return 400 (lines 20-22 and 70-72)
Invalid(r) ==
  /\ reqs[r].at = "start"
  /\ reqs[r].category_name = ""
  /\ reqs' = Respond(r, 400)
  /\ UNCHANGED importVars

\* POST: the duplicate check (lines 26-33)
PostCheck(r) ==
  /\ reqs[r].method = "POST"
  /\ reqs[r].at = "start"
  /\ reqs[r].category_name # ""
  /\ reqs' = IF SameName(reqs[r].category_name) # {}
             THEN Respond(r, 400) ELSE Goto(r, "insert")
  /\ UNCHANGED importVars

\* POST: the insert (lines 36-41); the table assigns the next identifier.
PostInsert(r) ==
  /\ reqs[r].at = "insert"
  /\ category' = Append(category, Cat(Len(category) + 1, reqs[r].category_name))
  /\ reqs' = Respond(r, 201)
  /\ UNCHANGED <<sheetHeaders, products, dbProducts, columnMap, pc, released,
                 tx, txRows, stmts, categories, categoryMap, errors,
                 processedCount, i, err, result>>

\* PUT: does the category exist (lines 76-83)
PutFind(r) ==
  /\ reqs[r].method = "PUT"
  /\ reqs[r].at = "start"
  /\ reqs[r].category_name # ""
  /\ reqs' = IF WithId(reqs[r].id) = {} THEN Respond(r, 404) ELSE Goto(r, "check")
  /\ UNCHANGED importVars

\* PUT: the duplicate check (lines 86-93)
PutCheck(r) ==
  /\ reqs[r].at = "check"
  /\ reqs' = IF SameNameOther(reqs[r].category_name, reqs[r].id) # {}
             THEN Respond(r, 400) ELSE Goto(r, "update")
  /\ UNCHANGED importVars

\* PUT: the update (lines 96-101)
PutUpdate(r) ==
  /\ reqs[r].at = "update"
  /\ category' = [k \in 1..Len(category) |->
                    IF category[k].category_id = reqs[r].id
                    THEN Cat(reqs[r].id, reqs[r].category_name)
                    ELSE category[k]]
  /\ reqs' = Respond(r, 200)
  /\ UNCHANGED <<sheetHeaders, products, dbProducts, columnMap, pc, released,
                 tx, txRows, stmts, categories, categoryMap, errors,
                 processedCount, i, err, result>>

\* A query rejects: catch (err) { res.status(500) } (lines 42-44, 102-104)
QueryFails(r) ==
  /\ reqs[r].at \in {"insert", "update"}
  /\ reqs' = Respond(r, 500)
  /\ UNCHANGED importVars

NextCat ==
  \/ \E r \in DOMAIN reqs : Invalid(r)
  \/ \E r \in DOMAIN reqs : PostCheck(r)
  \/ \E r \in DOMAIN reqs : PostInsert(r)
  \/ \E r \in DOMAIN reqs : PutFind(r)
  \/ \E r \in DOMAIN reqs : PutCheck(r)
  \/ \E r \in DOMAIN reqs : PutUpdate(r)
  \/ \E r \in DOMAIN reqs : QueryFails(r)

SpecCat == InitCat /\ [][NextCat]_vars

\* C10: no two rows of the category table have names that are equal when
\* compared case-insensitively.
C10_NamesUniqueIgnoringCase ==
  \A j, k \in 1..Len(category) :
    j # k => ToLowerCase(category[j].category_name) # ToLowerCase(category[k].category_name)

====
